---- MODULE Spec2Model ----
(***************************************************************************)
(* zabaan_backend: the token lifecycle (JWT issue / validate / per-user    *)
(* revocation mark kept in MySQL) and the sliding-window rate limiter of   *)
(* the auth endpoints.                                                     *)
(*                                                                         *)
(* Time is counted in ticks, TicksPerSec ticks to the second; one tick is  *)
(* the smallest unit the clock resolves.  The zero time.Time (no           *)
(* revocation, column NULL) is ZeroTime.                                   *)
(***************************************************************************)
EXTENDS Integers, Sequences, FiniteSets, TLC

\* ------------------------------------------------------------------ bounds
TicksPerSec == 2
TokenExpirySec == 6
MaxRequests == 2

Sec(n) == n * TicksPerSec
Half == TicksPerSec \div 2

\* The instants at which the clock is read: whole and fractional seconds
\* around 0 s and around 4..6 s.
Instants == {0, Sec(4), Sec(4) + Half, Sec(5), Sec(5) + Half, Sec(6)}

\* REVOCATION_TOLERANCE values: 0, a fraction of a second, 1 s, and the
\* default of 2 s.
Tolerances == {0, Half, Sec(1), Sec(2)}
DefaultTolerance == Sec(2)

StorePrecisions == {"exact", "round"}
Procs == {"r1", "r2"}
Goroutines == {"g1", "g2"}
RowIds == {42, 43}
NoRowId == 99
Subjects == RowIds \cup {NoRowId}

Keys == {"10.0.0.1", "10.0.0.2"}
\* main: NewAuthRateLimiter(time.Minute, 10, cfg.TrustProxy)
WindowSec == 60
MaxReq == 10
\* The instants at which a limiter of window w reads the clock: the start,
\* one tick later, one window after the start, and one tick after that.
LimiterInstants(w) == {0, 1, w, w + 1}
\* The limiters checked and the clients that call each: a one-second window
\* admitting 0, 1 or 2 requests called by two clients, and the limiter main
\* builds called by one client.
LimiterConfigs ==
    {<<Sec(1), 0, Keys>>, <<Sec(1), 1, Keys>>, <<Sec(1), 2, Keys>>,
     <<Sec(WindowSec), MaxReq, {"10.0.0.1"}>>}

ZeroTime == -1
Free == "free"
Secret == "jwt-secret"
tokenExpiry == Sec(TokenExpirySec)

VARIABLES
    now,                 \* time.Now()
    dbOpen,              \* Repository.db != nil
    storePrecision,      \* how the token_valid_after column keeps a time
    revocationTolerance, \* Service.revocationTolerance
    mark,                \* users.token_valid_after, committed value per row
    rowLock,             \* holder of the row's FOR UPDATE lock
    pc, user, issuedAt, txw, resp,   \* per request goroutine
    lastBy, lastT,       \* history: last committed revocation per row
    served,              \* history: number of GetToken requests started
    vres,                \* the last ValidateTokenFull call and its result
    req,                 \* per request goroutine: the HTTP request being served
    codec,               \* a token being issued and parsed back
    idem,                \* a revocation being called twice with the same t
    kreq,                \* two requests and the keys Wrap computes for them
    window, maxReq,      \* AuthRateLimiter.window, .maxReq
    requests,            \* AuthRateLimiter.requests
    mu,                  \* AuthRateLimiter.mu: its holder
    lpc, lip, lnow, lkept, lres,     \* per goroutine inside Wrap / allow
    clients,             \* the client IPs that send requests
    admitted, denied     \* history of the allow calls

tokVars == <<dbOpen, storePrecision, revocationTolerance, mark, rowLock,
             pc, user, issuedAt, txw, resp, lastBy, lastT, served, vres, req, codec, idem,
             kreq>>
limVars == <<window, maxReq, clients, requests, mu, lpc, lip, lnow, lkept, lres,
             admitted, denied>>
vars == <<now, tokVars, limVars>>

\* ------------------------------------------------------- time conversions
\* time.Time.Truncate(time.Second)
TruncSec(t) == t - (t % TicksPerSec)

\* Rounding to the nearest second, half up (MySQL storing a fractional
\* time into a DATETIME column of fsp 0).
RoundSec(t) == ((2 * t + TicksPerSec) \div (2 * TicksPerSec)) * TicksPerSec

\* Mutant: the column keeps the time three seconds ahead.
StoreWrite_Ahead(t) == TruncSec(t) + 3 * TicksPerSec

\* Mutant: the statement sets the column to the server's clock, not to t.
StoreWrite_Now(t) == TruncSec(now)

\* The value the column holds after UPDATE users SET token_valid_after = t.
\* The column is DATETIME (no fractional digits): MySQL rounds, or truncates
\* under sql_mode TIME_TRUNCATE_FRACTIONAL; a column that already existed
\* with fractional digits (ensureAuthColumns tolerates "Duplicate column")
\* keeps the value.
StoreWrite(t) ==
    CASE storePrecision = "exact" -> t
      [] storePrecision = "truncate" -> TruncSec(t)
      [] storePrecision = "round" -> RoundSec(t)

\* jwt.NewNumericDate: the claim keeps whole seconds.
NewNumericDate(t) == TruncSec(t)

\* ---------------------------------------------------------------- tokens
\* fmt.Sprintf("%d", userID): the decimal digits of userID.
RECURSIVE Sprintf(_)
Sprintf(n) == IF n < 10 THEN <<n>> ELSE Append(Sprintf(n \div 10), n % 10)

\* The value of a string of decimal digits.
RECURSIVE DigitsValue(_)
DigitsValue(s) ==
    IF s = << >> THEN 0 ELSE 10 * DigitsValue(SubSeq(s, 1, Len(s) - 1)) + s[Len(s)]

\* strconv.ParseUint(s, 10, 64): a syntax error for the empty string and
\* for anything but digits.
ParseUint(s) ==
    IF s = << >> \/ \E i \in 1..Len(s) : s[i] \notin 0..9
    THEN [err |-> "strconv.ErrSyntax", n |-> 0]
    ELSE [err |-> "nil", n |-> DigitsValue(s)]

\* A byte that is no valid UTF-8, and the rune encoding/json puts for it.
InvalidByte == "\\xff"
ReplacementChar == "\\ufffd"

\* json.Marshal of a string: invalid UTF-8 is replaced by U+FFFD, and "<" is
\* written as the escape \u003c.
JsonMarshalString(str) ==
    [i \in 1..Len(str) |->
        IF str[i] = InvalidByte THEN ReplacementChar
        ELSE IF str[i] = "<" THEN "\\u003c"
        ELSE str[i]]

\* A decoder that leaves escapes as they are written.
JsonUnmarshalString_Raw(enc) == enc

\* json.Unmarshal of a string: escapes are read back.
JsonUnmarshalString(enc) ==
    [i \in 1..Len(enc) |-> IF enc[i] = "\\u003c" THEN "<" ELSE enc[i]]

\* users.email of a row (signup stores it trimmed and lowercased).
UserEmail(p) == IF p = 42 THEN <<"a", "@", "x">> ELSE <<"b", "@", "x">>

NoToken == [sub |-> << >>, email |-> << >>, iat |-> ZeroTime, exp |-> ZeroTime,
            alg |-> "", key |-> ""]

\* Mutant: the token is signed whatever the secret is.
CreateTokenWithIssuedAt_NoSecretCheck(secret, userID, email, at, expiry) ==
    [err |-> "nil",
     token |-> [sub |-> Sprintf(userID),
                email |-> JsonMarshalString(email),
                iat |-> NewNumericDate(at),
                exp |-> NewNumericDate(at + expiry),
                alg |-> "HS256",
                key |-> secret]]

CreateTokenWithIssuedAt(secret, userID, email, at, expiry) ==
    IF secret = ""
    THEN [err |-> "secret empty", token |-> NoToken]
    ELSE [err |-> "nil",
          token |-> [sub |-> Sprintf(userID),
                     email |-> JsonMarshalString(email),
                     iat |-> NewNumericDate(at),
                     exp |-> NewNumericDate(at + expiry),
                     alg |-> "HS256",
                     key |-> secret]]

CreateToken(secret, userID, email, expiry) ==
    CreateTokenWithIssuedAt(secret, userID, email, now, expiry)

\* Mutant: the signing method of the header is not compared with HS256.
ValidateToken_AnyAlg(secret, tok) ==
    IF secret = ""
    THEN [err |-> "secret empty", claims |-> NoToken]
    ELSE IF tok.key # secret \/ ~(now < tok.exp)
    THEN [err |-> "ErrTokenInvalid", claims |-> NoToken]
    ELSE [err |-> "nil", claims |-> [tok EXCEPT !.email = JsonUnmarshalString(@)]]

\* Mutant: a token is still good at the instant it expires.
ValidateToken_ExpiryInclusive(secret, tok) ==
    IF secret = ""
    THEN [err |-> "secret empty", claims |-> NoToken]
    ELSE IF tok.alg # "HS256" \/ tok.key # secret \/ ~(now <= tok.exp)
    THEN [err |-> "ErrTokenInvalid", claims |-> NoToken]
    ELSE [err |-> "nil", claims |-> [tok EXCEPT !.email = JsonUnmarshalString(@)]]

ValidateToken(secret, tok) ==
    IF secret = ""
    THEN [err |-> "secret empty", claims |-> NoToken]
    ELSE IF tok.alg # "HS256" \/ tok.key # secret \/ ~(now < tok.exp)
    THEN [err |-> "ErrTokenInvalid", claims |-> NoToken]
    ELSE [err |-> "nil", claims |-> [tok EXCEPT !.email = JsonUnmarshalString(@)]]

\* ----------------------------------------------------- revocation store
\* Repository.GetTokenValidAfter; io is whether the query round trip works.
GetTokenValidAfter(userID, io) ==
    IF ~dbOpen THEN [err |-> "sql.ErrConnDone", t |-> ZeroTime]
    ELSE IF ~io THEN [err |-> "io error", t |-> ZeroTime]
    ELSE IF userID \notin RowIds THEN [err |-> "sql.ErrNoRows", t |-> ZeroTime]
    ELSE [err |-> "nil", t |-> mark[userID]]

IsZero(t) == t = ZeroTime

\* Mutant: the boundary compared with <= instead of Before.
IsRevoked_NotAfter(validAfter, iat, tolerance) ==
    /\ ~IsZero(validAfter)
    /\ iat # ZeroTime
    /\ TruncSec(iat) + tolerance <= TruncSec(validAfter)

\* Mutant: the tolerance is not added to the token's issued-at.
IsRevoked_NoTolerance(validAfter, iat, tolerance) ==
    /\ ~IsZero(validAfter)
    /\ iat # ZeroTime
    /\ TruncSec(iat) < TruncSec(validAfter)

\* Mutant: the tolerance is added to the cutoff instead of the issued-at.
IsRevoked_ToleranceOnCutoff(validAfter, iat, tolerance) ==
    /\ ~IsZero(validAfter)
    /\ iat # ZeroTime
    /\ TruncSec(iat) < TruncSec(validAfter) + tolerance

\* Mutant: no token is ever revoked.
IsRevoked_Never(validAfter, iat, tolerance) == FALSE

\* The revocation test of ValidateTokenFull.
IsRevoked(validAfter, iat, tolerance) ==
    /\ ~IsZero(validAfter)
    /\ iat # ZeroTime
    /\ TruncSec(iat) + tolerance < TruncSec(validAfter)

\* What ValidateTokenFull returns.
Result(err, claims, looked, lookup, validAfter) ==
    [err |-> err, claims |-> claims, looked |-> looked, lookup |-> lookup,
     validAfter |-> validAfter]

\* Mutant: a failed lookup is reported as ErrTokenInvalid.
LookupFailed_AsInvalid(lk) == Result("ErrTokenInvalid", NoToken, TRUE, lk.err, ZeroTime)

\* What ValidateTokenFull returns when GetTokenValidAfter returned lk.err.
LookupFailed(lk) == Result(lk.err, NoToken, TRUE, lk.err, ZeroTime)

\* Mutant: the revocation mark is looked up and compared before the
\* signature and the expiry are checked.
ValidateTokenFull_RevocationFirst(tok, io) ==
    LET v == ValidateToken(Secret, tok)
        lk == GetTokenValidAfter(ParseUint(tok.sub).n, io)
    IN  IF lk.err # "nil"
        THEN LookupFailed(lk)
        ELSE IF IsRevoked(lk.t, tok.iat, revocationTolerance)
        THEN Result("ErrTokenRevoked", NoToken, TRUE, "nil", lk.t)
        ELSE IF v.err # "nil"
        THEN Result(v.err, NoToken, TRUE, "nil", lk.t)
        ELSE Result("nil", v.claims, TRUE, "nil", lk.t)

\* Mutant: a failed lookup is read as "no revocation".
ValidateTokenFull_FailOpen(tok, io) ==
    LET v == ValidateToken(Secret, tok)
        lk == GetTokenValidAfter(ParseUint(tok.sub).n, io)
    IN  IF v.err # "nil"
        THEN Result(v.err, NoToken, FALSE, "none", ZeroTime)
        ELSE IF lk.err # "nil"
        THEN Result("nil", v.claims, TRUE, lk.err, ZeroTime)
        ELSE IF IsRevoked(lk.t, v.claims.iat, revocationTolerance)
        THEN Result("ErrTokenRevoked", NoToken, TRUE, "nil", lk.t)
        ELSE Result("nil", v.claims, TRUE, "nil", lk.t)

ValidateTokenFull(tok, io) ==
    LET v == ValidateToken(Secret, tok)
        lk == GetTokenValidAfter(ParseUint(tok.sub).n, io)
    IN  IF v.err # "nil"
        THEN Result(v.err, NoToken, FALSE, "none", ZeroTime)
        ELSE IF ParseUint(v.claims.sub).err # "nil"
        THEN Result("ErrTokenInvalid", NoToken, FALSE, "none", ZeroTime)
        ELSE IF lk.err # "nil"
        THEN LookupFailed(lk)
        ELSE IF IsRevoked(lk.t, v.claims.iat, revocationTolerance)
        THEN Result("ErrTokenRevoked", NoToken, TRUE, "nil", lk.t)
        ELSE Result("nil", v.claims, TRUE, "nil", lk.t)

\* ------------------------------------------------------------------ init
NoAllow == [called |-> FALSE, allowed |-> FALSE, lastAdmitted |-> ZeroTime,
            deniedBefore |-> FALSE, inWindowBefore |-> 0]
NoResp == [status |-> 0, token |-> NoToken]
NoRes == [called |-> FALSE, tok |-> NoToken, issuedAt |-> ZeroTime, io |-> TRUE,
          err |-> "", claims |-> NoToken, looked |-> FALSE, lookup |-> "",
          validAfter |-> ZeroTime, hdr |-> "", status |-> 0, next |-> FALSE]

\* No token being issued.
NoCodec == [called |-> FALSE, fn |-> "", secret |-> "", id |-> 0, email |-> << >>,
            at |-> ZeroTime, ttl |-> 0, err |-> "", token |-> NoToken,
            parsed |-> FALSE, parsedAt |-> ZeroTime, perr |-> "",
            claims |-> NoToken]

\* No revocation called yet.
NoIdem == [calls |-> 0, p |-> 0, t |-> ZeroTime, once |-> << >>, ok |-> FALSE]

\* No request read by Wrap.
NoHttp == [RemoteAddr |-> << >>, XRealIP |-> << >>, XForwardedFor |-> << >>]
NoKreq == [called |-> FALSE, trustProxy |-> FALSE, a |-> NoHttp, b |-> NoHttp,
           ka |-> << >>, kb |-> << >>]

\* No credentials in the body.
NoCred == [kind |-> "", id |-> 0]

\* No request being served.
NoReq == [method |-> "", ep |-> "", hasBearer |-> FALSE, bearer |-> NoToken,
          io |-> TRUE, cred |-> NoCred, berr |-> "", claims |-> NoToken,
          wrote |-> FALSE]

\* The limiter as NewAuthRateLimiter(window, maxReq, trustProxy) returns it.
InitLimiter(w, m, cs) ==
    /\ window = w
    /\ maxReq = m
    /\ clients = cs
    /\ requests = << >>
    /\ mu = Free
    /\ lpc = [g \in Goroutines |-> "idle"]
    /\ lip = [g \in Goroutines |-> ""]
    /\ lnow = [g \in Goroutines |-> ZeroTime]
    /\ lkept = [g \in Goroutines |-> << >>]
    /\ lres = [g \in Goroutines |-> NoAllow]
    /\ admitted = [k \in Keys |-> << >>]
    /\ denied = [k \in Keys |-> FALSE]

\* No request in flight, no revocation yet.
InitToken ==
    /\ mark = [p \in RowIds |-> ZeroTime]
    /\ rowLock = [p \in RowIds |-> Free]
    /\ pc = [r \in Procs |-> "idle"]
    /\ user = [r \in Procs |-> 0]
    /\ issuedAt = [r \in Procs |-> ZeroTime]
    /\ txw = [r \in Procs |-> ZeroTime]
    /\ resp = [r \in Procs |-> NoResp]
    /\ lastBy = [p \in RowIds |-> ""]
    /\ lastT = [p \in RowIds |-> ZeroTime]
    /\ served = 0
    /\ vres = NoRes
    /\ req = [r \in Procs |-> NoReq]
    /\ codec = NoCodec
    /\ idem = NoIdem
    /\ kreq = NoKreq

InitCommon ==
    /\ now = 0
    /\ InitLimiter(Sec(WindowSec), MaxReq, Keys)
    /\ storePrecision \in StorePrecisions
    /\ revocationTolerance \in Tolerances
    /\ InitToken

Init ==
    /\ InitCommon
    /\ dbOpen \in BOOLEAN

\* --------------------------------------------------------------- actions
cfgVars == <<dbOpen, storePrecision, revocationTolerance>>
histVars == <<lastBy, lastT, served>>

Tick ==
    /\ vres.called = FALSE
    /\ \E t \in Instants : t > now /\ now' = t
    /\ UNCHANGED <<cfgVars, kreq, idem, codec, req, mark, rowLock, pc, user, issuedAt, txw, resp, histVars, vres>>
    /\ UNCHANGED limVars

\* Handler.GetToken after AuthenticateWithCredentials returned the user:
\* issuedAt := time.Now(), then RevokePreviousTokensAt(user.ID, issuedAt).
StartGetToken(r, p) ==
    /\ vres.called = FALSE
    /\ pc[r] = "idle"
    /\ pc' = [pc EXCEPT ![r] = "begin"]
    /\ user' = [user EXCEPT ![r] = p]
    /\ issuedAt' = [issuedAt EXCEPT ![r] = now]
    /\ served < MaxRequests
    /\ served' = served + 1
    /\ UNCHANGED <<now, cfgVars, kreq, idem, codec, req, mark, rowLock, txw, resp, lastBy, lastT, vres>>
    /\ UNCHANGED limVars

\* Mutant: the error return leaves the transaction open.
Fail_KeepsLock(r) ==
    /\ pc' = [pc EXCEPT ![r] = "done"]
    /\ resp' = [resp EXCEPT ![r] = [status |-> 500, token |-> NoToken]]
    /\ UNCHANGED <<rowLock, txw>>

\* The request ends with 500 "failed to revoke previous tokens"; the
\* deferred tx.Rollback gives the row lock back.
Fail(r) ==
    /\ pc' = [pc EXCEPT ![r] = "done"]
    /\ resp' = [resp EXCEPT ![r] = [status |-> 500, token |-> NoToken]]
    /\ rowLock' = [p \in RowIds |-> IF rowLock[p] = r THEN Free ELSE rowLock[p]]
    /\ txw' = [txw EXCEPT ![r] = ZeroTime]

\* UpdateTokenValidAfter: r.db == nil, r.db.Begin()
TxBegin(r) ==
    /\ vres.called = FALSE
    /\ pc[r] = "begin"
    /\ \/ /\ dbOpen
          /\ pc' = [pc EXCEPT ![r] = "lock"]
          /\ UNCHANGED <<rowLock, txw, resp>>
       \/ Fail(r)
    /\ UNCHANGED <<now, cfgVars, kreq, idem, codec, req, mark, user, issuedAt, histVars, vres>>
    /\ UNCHANGED limVars

\* Mutant: the transaction locks the whole users table.
LockFree_TableLock(r) == \A p \in RowIds : rowLock[p] = Free

\* Mutant: SELECT without FOR UPDATE, which waits for no lock.
LockFree_NoForUpdate(r) == TRUE

\* The row lock is free for r to take.
LockFree(r) == rowLock[user[r]] = Free

\* SELECT id FROM users WHERE id = ? FOR UPDATE
TxSelectForUpdate(r) ==
    /\ vres.called = FALSE
    /\ pc[r] = "lock"
    /\ \/ /\ LockFree(r)
          /\ rowLock' = [rowLock EXCEPT ![user[r]] = r]
          /\ pc' = [pc EXCEPT ![r] = "update"]
          /\ UNCHANGED <<txw, resp>>
       \/ Fail(r)
    /\ UNCHANGED <<now, cfgVars, kreq, idem, codec, req, mark, user, issuedAt, histVars, vres>>
    /\ UNCHANGED limVars

\* UPDATE users SET token_valid_after = ? WHERE id = ?
TxUpdate(r) ==
    /\ vres.called = FALSE
    /\ pc[r] = "update"
    /\ \/ /\ txw' = [txw EXCEPT ![r] = StoreWrite(issuedAt[r])]
          /\ pc' = [pc EXCEPT ![r] = "commit"]
          /\ UNCHANGED <<rowLock, resp>>
       \/ Fail(r)
    /\ UNCHANGED <<now, cfgVars, kreq, idem, codec, req, mark, user, issuedAt, histVars, vres>>
    /\ UNCHANGED limVars

\* Mutant: the UPDATE has no WHERE clause and stamps every row.
TxCommit_AllRows(r) ==
    /\ vres.called = FALSE
    /\ pc[r] = "commit"
    /\ mark' = [p \in RowIds |-> txw[r]]
    /\ rowLock' = [p \in RowIds |-> IF rowLock[p] = r THEN Free ELSE rowLock[p]]
    /\ txw' = [txw EXCEPT ![r] = ZeroTime]
    /\ pc' = [pc EXCEPT ![r] = "issue"]
    /\ lastBy' = [lastBy EXCEPT ![user[r]] = r]
    /\ lastT' = [lastT EXCEPT ![user[r]] = issuedAt[r]]
    /\ req' = [req EXCEPT ![r].wrote = TRUE]
    /\ UNCHANGED <<now, cfgVars, kreq, idem, codec, user, issuedAt, served, vres, resp>>
    /\ UNCHANGED limVars

\* tx.Commit()
TxCommit(r) ==
    /\ vres.called = FALSE
    /\ pc[r] = "commit"
    /\ \/ /\ mark' = [mark EXCEPT ![user[r]] = txw[r]]
          /\ rowLock' = [p \in RowIds |-> IF rowLock[p] = r THEN Free ELSE rowLock[p]]
          /\ txw' = [txw EXCEPT ![r] = ZeroTime]
          /\ pc' = [pc EXCEPT ![r] = "issue"]
          /\ lastBy' = [lastBy EXCEPT ![user[r]] = r]
          /\ lastT' = [lastT EXCEPT ![user[r]] = issuedAt[r]]
          /\ req' = [req EXCEPT ![r].wrote = TRUE]
          /\ UNCHANGED resp
       \/ /\ Fail(r)
          /\ UNCHANGED <<mark, lastBy, lastT, req>>
    /\ UNCHANGED <<now, cfgVars, kreq, idem, codec, user, issuedAt, served, vres>>
    /\ UNCHANGED limVars

\* Mutant: issuing the token stamps the mark with the clock.
IssueToken_WritesMark(r) ==
    /\ vres.called = FALSE
    /\ pc[r] = "issue"
    /\ resp' = [resp EXCEPT ![r] =
                  [status |-> 200,
                   token |-> CreateTokenWithIssuedAt(Secret, user[r], UserEmail(user[r]),
                                                     issuedAt[r], tokenExpiry).token]]
    /\ mark' = [mark EXCEPT ![user[r]] = now]
    /\ pc' = [pc EXCEPT ![r] = "done"]
    /\ UNCHANGED <<now, cfgVars, kreq, idem, codec, req, rowLock, user, issuedAt, txw, histVars, vres>>
    /\ UNCHANGED limVars

\* Handler.GetToken: CreateTokenWithIssuedAt(user.ID, user.Email, issuedAt)
IssueToken(r) ==
    /\ vres.called = FALSE
    /\ pc[r] = "issue"
    /\ LET c == CreateTokenWithIssuedAt(Secret, user[r], UserEmail(user[r]),
                                        issuedAt[r], tokenExpiry)
       IN  resp' = [resp EXCEPT ![r] =
                      IF c.err = "nil" THEN [status |-> 200, token |-> c.token]
                      ELSE [status |-> 500, token |-> NoToken]]
    /\ pc' = [pc EXCEPT ![r] = "done"]
    /\ UNCHANGED <<now, cfgVars, kreq, idem, codec, req, mark, rowLock, user, issuedAt, txw, histVars, vres>>
    /\ UNCHANGED limVars

\* The response is written and the goroutine serves the next request.
Return(r) ==
    /\ vres.called = FALSE
    /\ pc[r] = "done"
    /\ pc' = [pc EXCEPT ![r] = "idle"]
    /\ user' = [user EXCEPT ![r] = 0]
    /\ issuedAt' = [issuedAt EXCEPT ![r] = ZeroTime]
    /\ resp' = [resp EXCEPT ![r] = NoResp]
    /\ req' = [req EXCEPT ![r] = NoReq]
    /\ UNCHANGED <<now, cfgVars, kreq, idem, codec, mark, rowLock, txw, histVars, vres>>
    /\ UNCHANGED limVars

\* Tokens a client can present: one the service signed for a subject at an
\* instant that has passed, or a forgery: signed with another key, declared
\* unsigned, signed with the right key under another HMAC algorithm, or a
\* string that is no token at all.
ServiceToken(sub, at) ==
    CreateTokenWithIssuedAt(Secret, sub, UserEmail(sub), at, tokenExpiry).token
Forged(sub) ==
    {[ServiceToken(sub, now) EXCEPT !.key = "other"],
     [ServiceToken(sub, now) EXCEPT !.alg = "none", !.key = ""],
     [ServiceToken(sub, now) EXCEPT !.alg = "HS384"],
     NoToken}

\* The Authorization header of a request: absent, present without the
\* "Bearer " prefix, or "Bearer " and a token.
Headers == {"none", "other", "bearer"}

\* Mutant: only ErrTokenInvalid is answered 401.
RequireAuth_OnlyInvalid(hdr, res) ==
    IF hdr # "bearer" \/ res.err = "ErrTokenInvalid"
    THEN [status |-> 401, next |-> FALSE]
    ELSE [status |-> 0, next |-> TRUE]

\* RequireAuth with a validator: 401, or next(w, r) with the claims in the
\* context; res is what ValidateTokenFull returned for the token.
RequireAuth(hdr, res) ==
    IF hdr # "bearer"
    THEN [status |-> 401, next |-> FALSE]
    ELSE IF res.err # "nil"
    THEN [status |-> 401, next |-> FALSE]
    ELSE [status |-> 0, next |-> TRUE]

\* The record of one RequireAuth request and its ValidateTokenFull call.
Called(tok, at, io, res) ==
    [called |-> TRUE, tok |-> tok, issuedAt |-> at, io |-> io, err |-> res.err,
     claims |-> res.claims, looked |-> res.looked, lookup |-> res.lookup,
     validAfter |-> res.validAfter, hdr |-> "bearer",
     status |-> RequireAuth("bearer", res).status,
     next |-> RequireAuth("bearer", res).next]

\* The record of a RequireAuth request that carries no Bearer token.
NotCalled(hdr) ==
    [NoRes EXCEPT !.called = TRUE, !.err = "none", !.hdr = hdr,
                  !.status = RequireAuth(hdr, NoRes).status,
                  !.next = RequireAuth(hdr, NoRes).next]

\* The instants at which a presented token of sub can have been issued.
IssuedInstants(sub) ==
    IF sub \in RowIds THEN {i \in Instants : i <= now} ELSE {now}

\* A request to a route behind RequireAuth: Service.ValidateTokenFull on
\* the presented token, if any.
Validate ==
    /\ vres.called = FALSE
    /\ \/ \E sub \in Subjects, io \in BOOLEAN : \E at \in IssuedInstants(sub) :
              vres' = Called(ServiceToken(sub, at), at, io,
                             ValidateTokenFull(ServiceToken(sub, at), io))
       \/ \E sub \in Subjects : \E tok \in Forged(sub) :
              vres' = Called(tok, now, TRUE, ValidateTokenFull(tok, TRUE))
       \/ \E hdr \in Headers \ {"bearer"} : vres' = NotCalled(hdr)
    /\ UNCHANGED <<now, cfgVars, kreq, idem, codec, req, mark, rowLock, pc, user, issuedAt, txw, resp, histVars>>
    /\ UNCHANGED limVars

\* The caller of ValidateTokenFull consumes the result.
ValidateReturn ==
    /\ vres.called = TRUE
    /\ vres' = NoRes
    /\ UNCHANGED <<now, cfgVars, kreq, idem, codec, req, mark, rowLock, pc, user, issuedAt, txw, resp, histVars>>
    /\ UNCHANGED limVars

Request(r) ==
    \/ \E p \in RowIds : StartGetToken(r, p)
    \/ TxBegin(r)
    \/ TxSelectForUpdate(r)
    \/ TxUpdate(r)
    \/ TxCommit(r)
    \/ IssueToken(r)
    \/ Return(r)

Next ==
    \/ Tick
    \/ Request("r1")
    \/ Validate
    \/ ValidateReturn

Spec == Init /\ [][Next]_vars

\* Two request goroutines running GetToken concurrently against a database
\* that is open.
InitConc ==
    /\ InitCommon
    /\ dbOpen = TRUE
    /\ revocationTolerance \in {0, DefaultTolerance}

NextConc ==
    \/ Tick
    \/ \E r \in Procs : Request(r)

SpecConc == InitConc /\ [][NextConc]_vars

\* ---------------------------------------------------------- rate limiter
\* l.requests[ip]: a missing key reads as the nil slice.
Get(m, k) == IF k \in DOMAIN m THEN m[k] ELSE << >>
Put(m, k, v) == [x \in DOMAIN m \cup {k} |-> IF x = k THEN v ELSE m[x]]
Delete(m, k) == [x \in DOMAIN m \ {k} |-> m[x]]

\* Mutant: !t.Before(cutoff), which keeps an entry exactly one window old.
After_NotBefore(t, cutoff) == t >= cutoff

\* t.After(cutoff)
After(t, cutoff) == t > cutoff

\* The pruning loop: the entries after cutoff, in order.
Kept(times, cutoff) == SelectSeq(times, LAMBDA t : After(t, cutoff))

\* Mutant: the global pruning filters the lists and keeps the empty ones.
pruneIdleKeys_KeepEmpty(m, cutoff) == [k \in DOMAIN m |-> Kept(m[k], cutoff)]

\* Mutant: no global pruning.
pruneIdleKeys_NoPrune(m, cutoff) == m

\* Mutant: the global pruning drops every other key, idle or not.
pruneIdleKeys_DropAll(m, cutoff) == << >>

\* AuthRateLimiter.pruneIdleKeys
pruneIdleKeys(m, cutoff) ==
    [k \in {x \in DOMAIN m : Kept(m[x], cutoff) # << >>} |-> Kept(m[k], cutoff)]

\* Mutant: allow without l.mu.Lock().
MuFree_NoLock == TRUE

\* l.mu can be taken.
MuFree == mu = Free

\* History: the admitted calls of key k in the trailing window ending at t.
InWindow(k, t) ==
    Cardinality({i \in DOMAIN admitted[k] :
                    admitted[k][i] > t - window /\ admitted[k][i] <= t})

LastAdmitted(k) ==
    IF admitted[k] = << >> THEN ZeroTime ELSE admitted[k][Len(admitted[k])]

limCfg == <<window, maxReq, clients>>

\* Wrap calls allow(ip): l.mu.Lock(); now := time.Now()
AllowLock(g, ip) ==
    /\ lpc[g] = "idle"
    /\ ip \in clients
    /\ MuFree
    /\ mu' = g
    /\ lpc' = [lpc EXCEPT ![g] = "prune"]
    /\ lip' = [lip EXCEPT ![g] = ip]
    /\ lnow' = [lnow EXCEPT ![g] = now]
    /\ UNCHANGED <<now, tokVars, limCfg, requests, lkept, lres, admitted, denied>>

\* cutoff := now.Add(-l.window); times := l.requests[ip]; the pruning loop
AllowPrune(g) ==
    /\ lpc[g] = "prune"
    /\ lkept' = [lkept EXCEPT ![g] = Kept(Get(requests, lip[g]), lnow[g] - window)]
    /\ lpc' = [lpc EXCEPT ![g] = "decide"]
    /\ UNCHANGED <<now, tokVars, limCfg, requests, mu, lip, lnow, lres, admitted, denied>>

\* Mutant: the instant of a denied call is appended too.
AllowOutcome_DenyAppends(m, ip, kept, at, cutoff) ==
    IF Len(kept) >= maxReq
    THEN [allowed |-> FALSE, requests |-> Put(m, ip, Append(kept, at))]
    ELSE [allowed |-> TRUE,
          requests |-> Put(IF Len(kept) = 0 THEN pruneIdleKeys(Delete(m, ip), cutoff) ELSE m,
                           ip, Append(kept, at))]

\* The map after the rest of allow, and what allow returns.
AllowOutcome(m, ip, kept, at, cutoff) ==
    IF Len(kept) >= maxReq
    THEN [allowed |-> FALSE,
          requests |-> IF Len(kept) = 0 THEN Delete(m, ip) ELSE Put(m, ip, kept)]
    ELSE [allowed |-> TRUE,
          requests |-> Put(IF Len(kept) = 0 THEN pruneIdleKeys(Delete(m, ip), cutoff) ELSE m,
                           ip, Append(kept, at))]

\* if len(kept) >= l.maxReq { ... return false } ... return true, and the
\* deferred l.mu.Unlock()
AllowDecide(g) ==
    /\ lpc[g] = "decide"
    /\ LET ip == lip[g]
           out == AllowOutcome(requests, ip, lkept[g], lnow[g], lnow[g] - window)
       IN  /\ requests' = out.requests
           /\ lres' = [lres EXCEPT ![g] =
                         [called |-> TRUE, allowed |-> out.allowed,
                          lastAdmitted |-> LastAdmitted(ip),
                          deniedBefore |-> denied[ip],
                          inWindowBefore |-> InWindow(ip, lnow[g])]]
           /\ admitted' = IF out.allowed
                          THEN [admitted EXCEPT ![ip] = Append(@, lnow[g])]
                          ELSE admitted
           /\ denied' = [denied EXCEPT ![ip] = ~out.allowed]
    /\ mu' = IF mu = g THEN Free ELSE mu
    /\ lkept' = [lkept EXCEPT ![g] = << >>]
    /\ lpc' = [lpc EXCEPT ![g] = "ret"]
    /\ UNCHANGED <<now, tokVars, limCfg, lip, lnow>>

\* Wrap: 429 when allow returned false, next(w, r) otherwise.
AllowReturn(g) ==
    /\ lpc[g] = "ret"
    /\ lpc' = [lpc EXCEPT ![g] = "idle"]
    /\ lip' = [lip EXCEPT ![g] = ""]
    /\ lnow' = [lnow EXCEPT ![g] = ZeroTime]
    /\ lres' = [lres EXCEPT ![g] = NoAllow]
    /\ UNCHANGED <<now, tokVars, limCfg, requests, mu, lkept, admitted, denied>>

LimiterTick ==
    /\ \E t \in LimiterInstants(window) : t > now /\ now' = t
    /\ UNCHANGED <<tokVars, limVars>>

InitLim ==
    /\ now = 0
    /\ dbOpen = TRUE
    /\ storePrecision = "round"
    /\ revocationTolerance = DefaultTolerance
    /\ InitToken
    /\ \E c \in LimiterConfigs : InitLimiter(c[1], c[2], c[3])

NextLim ==
    \/ LimiterTick
    \/ \E g \in Goroutines :
         \/ \E ip \in Keys : AllowLock(g, ip)
         \/ AllowPrune(g)
         \/ AllowDecide(g)
         \/ AllowReturn(g)

SpecLim == InitLim /\ [][NextLim]_vars

\* -------------------------------------------------- credential endpoints
Methods == {"POST", "GET"}
Endpoints == {"Login", "GetToken"}

\* The body of a request: not JSON or a field missing, credentials that do
\* not match, credentials whose lookup fails, or those of an existing user.
Credentials ==
    {[kind |-> k, id |-> 0] : k \in {"malformed", "invalid", "error"}}
        \cup {[kind |-> "ok", id |-> p] : p \in RowIds}

\* The tokens a client can send after "Authorization: Bearer ".
BearerTokens ==
    UNION {{ServiceToken(sub, at) : at \in IssuedInstants(sub)} : sub \in Subjects}
        \cup Forged(42)

\* Mutant: any email and password are taken for those of user 42.
Login_AcceptsAny(cred) ==
    [status |-> 0, id |-> IF cred.kind = "ok" THEN cred.id ELSE 42]

\* Service.Login, as MapLoginError turns its error into a status.
Login(cred) ==
    IF ~dbOpen \/ cred.kind = "invalid" THEN [status |-> 401, id |-> 0]
    ELSE IF cred.kind = "error" THEN [status |-> 500, id |-> 0]
    ELSE [status |-> 0, id |-> cred.id]

\* Mutant: a Bearer of another user is let through.
EnsureBearerMatchesUser_Skip(bearerClaims, userID) == FALSE

\* EnsureBearerMatchesUser: TRUE when 401 was written.
EnsureBearerMatchesUser(bearerClaims, userID) ==
    /\ bearerClaims # NoToken
    /\ bearerClaims.sub # Sprintf(userID)

\* AuthenticateWithCredentials: status 0 and the user to continue, else the
\* status written; berr is what ValidateTokenFull said of the Bearer.
AuthenticateWithCredentials(hasBearer, tok, io, cred) ==
    LET ber == IF hasBearer THEN ValidateTokenFull(tok, io)
               ELSE Result("none", NoToken, FALSE, "none", ZeroTime)
        lg == Login(cred)
    IN  IF hasBearer /\ ber.err # "nil"
        THEN [status |-> 401, id |-> 0, berr |-> ber.err, claims |-> NoToken]
        ELSE IF cred.kind = "malformed"
        THEN [status |-> 400, id |-> 0, berr |-> ber.err, claims |-> ber.claims]
        ELSE IF lg.status # 0
        THEN [status |-> lg.status, id |-> 0, berr |-> ber.err, claims |-> ber.claims]
        ELSE IF EnsureBearerMatchesUser(ber.claims, lg.id)
        THEN [status |-> 401, id |-> 0, berr |-> ber.err, claims |-> ber.claims]
        ELSE [status |-> 0, id |-> lg.id, berr |-> ber.err, claims |-> ber.claims]

\* The request as the handler read it, with what the Bearer check said.
Served(method, ep, hasBearer, tok, io, cred, a) ==
    [method |-> method, ep |-> ep, hasBearer |-> hasBearer, bearer |-> tok,
     io |-> io, cred |-> cred, berr |-> a.berr, claims |-> a.claims,
     wrote |-> FALSE]

\* Handler.Login and the head of Handler.GetToken: MethodNotAllowed,
\* AuthenticateWithCredentials, then CreateToken (Login) or
\* issuedAt := time.Now() before RevokePreviousTokensAt (GetToken).
Serve(r, method, ep, hasBearer, tok, io, cred) ==
    LET a == IF method = "POST"
             THEN AuthenticateWithCredentials(hasBearer, tok, io, cred)
             ELSE [status |-> 405, id |-> 0, berr |-> "none", claims |-> NoToken]
        c == CreateToken(Secret, a.id, UserEmail(a.id), tokenExpiry)
    IN  /\ pc[r] = "idle"
        /\ served < MaxRequests
        /\ served' = served + 1
        /\ req' = [req EXCEPT ![r] = Served(method, ep, hasBearer, tok, io, cred, a)]
        /\ IF a.status # 0
           THEN /\ resp' = [resp EXCEPT ![r] = [status |-> a.status, token |-> NoToken]]
                /\ pc' = [pc EXCEPT ![r] = "done"]
                /\ UNCHANGED <<user, issuedAt>>
           ELSE /\ user' = [user EXCEPT ![r] = a.id]
                /\ issuedAt' = [issuedAt EXCEPT ![r] = now]
                /\ IF ep = "GetToken"
                   THEN /\ pc' = [pc EXCEPT ![r] = "begin"]
                        /\ UNCHANGED resp
                   ELSE /\ pc' = [pc EXCEPT ![r] = "done"]
                        /\ resp' = [resp EXCEPT ![r] =
                                      IF c.err = "nil"
                                      THEN [status |-> 200, token |-> c.token]
                                      ELSE [status |-> 500, token |-> NoToken]]
        /\ UNCHANGED <<cfgVars, kreq, idem, codec, mark, rowLock, txw, lastBy, lastT, vres>>

\* The request goroutine that runs the handler as r.
Caller(r) == IF r = "r1" THEN "g1" ELSE "g2"

\* Mutant: the result of allow is ignored.
Denied_Never(g) == FALSE

\* Wrap: if !l.allow(ip)
Denied(g) == ~lres[g].allowed

\* Wrap: allow returned false, 429 is written and next is not called.
WrapDeny(g) ==
    /\ lpc[g] = "ret"
    /\ Denied(g)
    /\ lpc' = [lpc EXCEPT ![g] = "429"]
    /\ UNCHANGED <<now, tokVars, limCfg, requests, mu, lip, lnow, lkept, lres,
                   admitted, denied>>

\* Wrap: allow returned true and next(w, r) is called.
WrapNext(r) ==
    /\ lpc[Caller(r)] = "ret"
    /\ ~Denied(Caller(r))
    /\ lpc' = [lpc EXCEPT ![Caller(r)] = "next"]
    /\ \E method \in Methods, ep \in Endpoints, cred \in Credentials :
          \/ Serve(r, method, ep, FALSE, NoToken, TRUE, cred)
          \/ \E tok \in BearerTokens, io \in BOOLEAN :
                Serve(r, method, ep, TRUE, tok, io, cred)
    /\ UNCHANGED <<now, limCfg, requests, mu, lip, lnow, lkept, lres, admitted, denied>>

\* Wrap returns: after the 429, or after next returned.
WrapDone(r) ==
    /\ \/ lpc[Caller(r)] = "429"
       \/ lpc[Caller(r)] = "next" /\ pc[r] = "idle"
    /\ lpc' = [lpc EXCEPT ![Caller(r)] = "idle"]
    /\ lip' = [lip EXCEPT ![Caller(r)] = ""]
    /\ lnow' = [lnow EXCEPT ![Caller(r)] = ZeroTime]
    /\ lres' = [lres EXCEPT ![Caller(r)] = NoAllow]
    /\ UNCHANGED <<now, tokVars, limCfg, requests, mu, lkept, admitted, denied>>

\* One client behind one address calling /login and /getToken through a
\* limiter that admits one request per second.
InitAuth ==
    /\ now = 0
    /\ dbOpen \in BOOLEAN
    /\ storePrecision = "round"
    /\ revocationTolerance \in {0, DefaultTolerance}
    /\ InitToken
    /\ InitLimiter(Sec(1), 1, {"10.0.0.1"})

NextAuth ==
    \/ Tick
    \/ \E ip \in Keys : AllowLock("g1", ip)
    \/ AllowPrune("g1")
    \/ AllowDecide("g1")
    \/ WrapDeny("g1")
    \/ WrapNext("r1")
    \/ TxBegin("r1")
    \/ TxSelectForUpdate("r1")
    \/ TxUpdate("r1")
    \/ TxCommit("r1")
    \/ IssueToken("r1")
    \/ Return("r1")
    \/ WrapDone("r1")

SpecAuth == InitAuth /\ [][NextAuth]_vars

\* Handler.Login or Handler.GetToken called with a request, as a mux without
\* the limiter calls it.
Handle(r) ==
    /\ \E ep \in Endpoints, cred \in Credentials :
          \/ Serve(r, "GET", ep, FALSE, NoToken, TRUE, cred)
          \/ Serve(r, "POST", ep, FALSE, NoToken, TRUE, cred)
          \/ \E sub \in RowIds : \E at \in IssuedInstants(sub) :
                Serve(r, "POST", ep, TRUE, ServiceToken(sub, at), TRUE, cred)
    /\ UNCHANGED <<now, limVars>>

\* The handlers alone, against an open database.
InitHandler ==
    /\ now = 0
    /\ dbOpen = TRUE
    /\ storePrecision = "round"
    /\ revocationTolerance \in {0, DefaultTolerance}
    /\ InitToken
    /\ InitLimiter(Sec(WindowSec), MaxReq, Keys)

NextHandler ==
    \/ Tick
    \/ Handle("r1")
    \/ TxBegin("r1")
    \/ TxSelectForUpdate("r1")
    \/ TxUpdate("r1")
    \/ TxCommit("r1")
    \/ IssueToken("r1")
    \/ Return("r1")

SpecHandler == InitHandler /\ [][NextHandler]_vars

\* ----------------------------------------------------------- token codec
\* The inputs of CreateTokenWithIssuedAt: secrets, principal IDs, emails
\* (plain, with a character JSON escapes, with a byte that is no UTF-8,
\* empty) and lifetimes (under a second, a second, the configured one).
Secrets == {"", Secret, "other"}
CodecIds == {0, 7, 42, 100}
Emails == {<<"a", "@", "x">>, <<"a", "<", "x">>, <<"a", InvalidByte, "x">>, << >>}
Ttls == {Half, Sec(1), tokenExpiry}

\* CreateTokenWithIssuedAt is called, or CreateToken, which stamps the
\* token with time.Now().
CodecIssue ==
    /\ ~codec.called
    /\ vres.called = FALSE
    /\ \E secret \in Secrets, id \in CodecIds, email \in Emails, ttl \in Ttls :
          \/ \E at \in Instants :
                LET c == CreateTokenWithIssuedAt(secret, id, email, at, ttl)
                IN  codec' = [NoCodec EXCEPT !.called = TRUE,
                                             !.fn = "CreateTokenWithIssuedAt",
                                             !.secret = secret, !.id = id,
                                             !.email = email, !.at = at,
                                             !.ttl = ttl, !.err = c.err,
                                             !.token = c.token]
          \/ LET c == CreateToken(secret, id, email, ttl)
             IN  codec' = [NoCodec EXCEPT !.called = TRUE, !.fn = "CreateToken",
                                          !.secret = secret, !.id = id,
                                          !.email = email, !.at = now,
                                          !.ttl = ttl, !.err = c.err,
                                          !.token = c.token]
    /\ UNCHANGED <<now, cfgVars, kreq, idem, mark, rowLock, pc, user, issuedAt, txw, resp,
                   histVars, vres, req, limVars>>

\* ValidateToken is called with the same secret on the token returned.
CodecParse ==
    /\ codec.called
    /\ codec.err = "nil"
    /\ ~codec.parsed
    /\ LET v == ValidateToken(codec.secret, codec.token)
       IN  codec' = [codec EXCEPT !.parsed = TRUE, !.parsedAt = now,
                                  !.perr = v.err, !.claims = v.claims]
    /\ UNCHANGED <<now, cfgVars, kreq, idem, mark, rowLock, pc, user, issuedAt, txw, resp,
                   histVars, vres, req, limVars>>

\* The token is dropped.
CodecDone ==
    /\ codec.called
    /\ codec' = NoCodec
    /\ UNCHANGED <<now, cfgVars, kreq, idem, mark, rowLock, pc, user, issuedAt, txw, resp,
                   histVars, vres, req, limVars>>

InitCodec ==
    /\ InitCommon
    /\ dbOpen = TRUE

NextCodec ==
    \/ Tick
    \/ CodecIssue
    \/ CodecParse
    \/ CodecDone

SpecCodec == InitCodec /\ [][NextCodec]_vars

\* ------------------------------------------------- revocation called twice
\* Service.RevokePreviousTokensAt(p, t) is called: the first call with any
\* principal and instant, the call after one that returned nil with the
\* same two.
StartRevoke(r, p, t) ==
    /\ vres.called = FALSE
    /\ pc[r] = "idle"
    /\ idem.calls < 2
    /\ idem.calls = 1 => (p = idem.p /\ t = idem.t)
    /\ idem' = [idem EXCEPT !.p = p, !.t = t]
    /\ pc' = [pc EXCEPT ![r] = "begin"]
    /\ user' = [user EXCEPT ![r] = p]
    /\ issuedAt' = [issuedAt EXCEPT ![r] = t]
    /\ UNCHANGED <<now, cfgVars, kreq, codec, req, mark, rowLock, txw, resp, histVars,
                   vres, limVars>>

\* UpdateTokenValidAfter returned: nil after the commit, or the error.
RevokeReturn(r) ==
    /\ vres.called = FALSE
    /\ pc[r] \in {"issue", "done"}
    /\ idem.calls < 2
    /\ idem' = IF idem.calls = 0 /\ pc[r] = "done" THEN NoIdem
               ELSE IF idem.calls = 0
               THEN [idem EXCEPT !.calls = 1, !.once = mark]
               ELSE [idem EXCEPT !.calls = 2, !.ok = (pc[r] = "issue")]
    /\ pc' = [pc EXCEPT ![r] = "idle"]
    /\ user' = [user EXCEPT ![r] = 0]
    /\ issuedAt' = [issuedAt EXCEPT ![r] = ZeroTime]
    /\ resp' = [resp EXCEPT ![r] = NoResp]
    /\ req' = [req EXCEPT ![r] = NoReq]
    /\ UNCHANGED <<now, cfgVars, kreq, codec, mark, rowLock, txw, histVars, vres,
                   limVars>>

\* The caller goes on to other revocations.
RevokeDone ==
    /\ idem.calls = 2
    /\ idem' = NoIdem
    /\ UNCHANGED <<now, cfgVars, kreq, codec, req, mark, rowLock, pc, user, issuedAt,
                   txw, resp, histVars, vres, limVars>>

InitIdem ==
    /\ InitCommon
    /\ dbOpen = TRUE

NextIdem ==
    \/ Tick
    \/ \E p \in RowIds, t \in Instants : StartRevoke("r1", p, t)
    \/ TxBegin("r1")
    \/ TxSelectForUpdate("r1")
    \/ TxUpdate("r1")
    \/ TxCommit("r1")
    \/ RevokeReturn("r1")
    \/ RevokeDone

SpecIdem == InitIdem /\ [][NextIdem]_vars

\* ------------------------------------------------------------ client key
\* Strings are sequences of lexical items: an address literal, a port, a
\* separator, a space.
Space == " "

\* strings.TrimSpace
RECURSIVE TrimLeft(_)
TrimLeft(s) == IF s # << >> /\ Head(s) = Space THEN TrimLeft(Tail(s)) ELSE s

RECURSIVE TrimRight(_)
TrimRight(s) ==
    IF s # << >> /\ s[Len(s)] = Space
    THEN TrimRight(SubSeq(s, 1, Len(s) - 1))
    ELSE s

TrimSpace(s) == TrimRight(TrimLeft(s))

\* strings.Index(s, c): the zero-based position of the first c, or -1.
Index(s, c) ==
    IF \E i \in 1..Len(s) : s[i] = c
    THEN (CHOOSE i \in 1..Len(s) : s[i] = c /\ \A j \in 1..(i - 1) : s[j] # c) - 1
    ELSE 0 - 1

\* The one-based position of the last c, or 0.
LastIndex(s, c) ==
    IF \E i \in 1..Len(s) : s[i] = c
    THEN CHOOSE i \in 1..Len(s) : s[i] = c /\ \A j \in (i + 1)..Len(s) : s[j] # c
    ELSE 0

\* The literals net.ParseIP accepts.
IPLiterals == {"10.0.0.1", "10.0.0.2", "1.2.3.4", "5.6.7.8", "9.9.9.9", "::1"}

\* net.ParseIP(s) != nil
ParseIP(s) == Len(s) = 1 /\ s[1] \in IPLiterals

\* net.SplitHostPort: the host before the last colon, without the brackets
\* of an IPv6 literal.
SplitHostPort(addr) ==
    LET i == LastIndex(addr, ":")
    IN  IF i = 0
        THEN [err |-> "missing port in address", host |-> << >>]
        ELSE IF addr[1] = "["
        THEN IF i >= 3 /\ addr[i - 1] = "]"
             THEN [err |-> "nil", host |-> SubSeq(addr, 2, i - 2)]
             ELSE [err |-> "missing ']' in address", host |-> << >>]
        ELSE IF \E j \in 1..(i - 1) : addr[j] = ":"
        THEN [err |-> "too many colons in address", host |-> << >>]
        ELSE [err |-> "nil", host |-> SubSeq(addr, 1, i - 1)]

\* clientIP, the branch of trustProxy: X-Real-IP, or the first entry of
\* X-Forwarded-For, when it parses as an IP.
FromHeaders(r) ==
    LET s == TrimSpace(r.XRealIP)
        f == TrimSpace(r.XForwardedFor)
        idx == Index(f, ",")
        first == IF idx >= 0 THEN TrimSpace(SubSeq(f, 1, idx)) ELSE f
    IN  IF s # << >> /\ ParseIP(s) THEN [ok |-> TRUE, ip |-> s]
        ELSE IF f # << >> /\ first # << >> /\ ParseIP(first)
        THEN [ok |-> TRUE, ip |-> first]
        ELSE [ok |-> FALSE, ip |-> << >>]

\* clientIP, the end: the host of r.RemoteAddr, or r.RemoteAddr as it is.
FromPeer(r) ==
    LET h == SplitHostPort(r.RemoteAddr)
    IN  IF h.err # "nil" THEN r.RemoteAddr ELSE h.host

\* Mutant: the headers are read whatever trustProxy is.
clientIP_AlwaysTrust(trustProxy, r) ==
    IF FromHeaders(r).ok THEN FromHeaders(r).ip ELSE FromPeer(r)

\* AuthRateLimiter.clientIP
clientIP(trustProxy, r) ==
    IF trustProxy /\ FromHeaders(r).ok THEN FromHeaders(r).ip ELSE FromPeer(r)

\* What requests carry.
RemoteAddrs == {<<"10.0.0.1", ":", "5000">>, <<"10.0.0.1", ":", "6000">>,
                <<"10.0.0.2", ":", "5000">>, <<"[", "::1", "]", ":", "80">>,
                <<"10.0.0.1">>}
XRealIPs == {<< >>, <<"1.2.3.4">>, <<Space, "1.2.3.4", Space>>, <<"junk">>}
XForwardedFors == {<< >>, <<"5.6.7.8">>, <<"5.6.7.8", ",", Space, "9.9.9.9">>,
                   <<"junk", ",", "5.6.7.8">>, <<",", "5.6.7.8">>}
HttpRequests ==
    [RemoteAddr : RemoteAddrs, XRealIP : XRealIPs, XForwardedFor : XForwardedFors]

\* Wrap of a limiter built with trustProxy reads the key of two requests.
WrapKey ==
    /\ ~kreq.called
    /\ \E trustProxy \in BOOLEAN, a \in HttpRequests, b \in HttpRequests :
          kreq' = [called |-> TRUE, trustProxy |-> trustProxy, a |-> a, b |-> b,
                   ka |-> clientIP(trustProxy, a), kb |-> clientIP(trustProxy, b)]
    /\ UNCHANGED <<now, cfgVars, codec, idem, mark, rowLock, pc, user, issuedAt,
                   txw, resp, histVars, vres, req, limVars>>

\* Both requests are answered.
WrapKeyDone ==
    /\ kreq.called
    /\ kreq' = NoKreq
    /\ UNCHANGED <<now, cfgVars, codec, idem, mark, rowLock, pc, user, issuedAt,
                   txw, resp, histVars, vres, req, limVars>>

InitKey ==
    /\ InitCommon
    /\ dbOpen = TRUE

NextKey ==
    \/ WrapKey
    \/ WrapKeyDone

SpecKey == InitKey /\ [][NextKey]_vars

\* ------------------------------------------------------ claims: validation
\* The principal a token names: its subject read as a decimal number.
SubjectId(tok) == ParseUint(tok.sub).n

\* Whole seconds of an instant, as the claims state it.
Floor(t) == (t \div TicksPerSec) * TicksPerSec

\* The presented token is correctly signed and unexpired.
Passed ==
    /\ vres.called
    /\ vres.tok.alg = "HS256"
    /\ vres.tok.key = Secret
    /\ now < vres.tok.exp

\* The store lookup of the presented token's subject succeeds / fails.
LookupSucceeds == dbOpen /\ vres.io /\ SubjectId(vres.tok) \in RowIds
LookupFails == ~LookupSucceeds

\* A passed token of a principal whose last successful
\* RevokePreviousTokensAt was at t2.
AfterRevoke(t2) ==
    /\ Passed
    /\ LookupSucceeds
    /\ t2 # ZeroTime
    /\ lastT[SubjectId(vres.tok)] = t2

C2_RevokedExactlyWhen ==
    (Passed /\ LookupSucceeds) =>
        LET validAfter == mark[SubjectId(vres.tok)]
            revoked == /\ validAfter # ZeroTime
                       /\ Floor(vres.issuedAt) + revocationTolerance < Floor(validAfter)
        IN  /\ revoked => (vres.err = "ErrTokenRevoked" /\ vres.claims = NoToken)
            /\ ~revoked => (vres.err = "nil" /\ vres.claims = vres.tok)
            /\ (SubjectId(vres.tok) = 42 /\ validAfter = Sec(5) /\ revocationTolerance = Sec(2)) =>
                  /\ vres.issuedAt = 0 => vres.err = "ErrTokenRevoked"
                  /\ vres.issuedAt \in {Sec(4), Sec(6)} => vres.err = "nil"

\* C2 witness: the scenario's token issued at 0 s is revoked by the cutoff
\* at 5 s under the 2 s tolerance.
C2_Witness ==
    /\ Passed /\ LookupSucceeds
    /\ SubjectId(vres.tok) = 42
    /\ mark[42] = Sec(5)
    /\ revocationTolerance = Sec(2)
    /\ vres.issuedAt = 0
    /\ vres.err = "ErrTokenRevoked"

\* C3 as stated: for every cutoff V and tolerance T, a token issued at
\* exactly V - T is accepted and one issued one tick earlier is revoked.
C3_AsStated ==
    (Passed /\ LookupSucceeds /\ mark[SubjectId(vres.tok)] # ZeroTime) =>
        LET V == mark[SubjectId(vres.tok)]
            T == revocationTolerance
        IN  /\ vres.issuedAt = V - T => vres.err = "nil"
            /\ vres.issuedAt = V - T - 1 => vres.err = "ErrTokenRevoked"

\* C3 amended: for a cutoff V and a tolerance T that are both whole seconds,
\* a token issued at exactly V - T is accepted and one issued one tick
\* earlier is revoked.
C3_ToleranceBoundary ==
    (Passed /\ LookupSucceeds /\ mark[SubjectId(vres.tok)] # ZeroTime) =>
        LET V == mark[SubjectId(vres.tok)]
            T == revocationTolerance
        IN  (V % TicksPerSec = 0 /\ T % TicksPerSec = 0) =>
               /\ vres.issuedAt = V - T => (vres.err = "nil" /\ vres.claims = vres.tok)
               /\ vres.issuedAt = V - T - 1 => vres.err = "ErrTokenRevoked"

\* C3 witness: with a whole-second cutoff and tolerance, the token issued
\* one tick before V - T is revoked.
C3_Witness ==
    /\ Passed /\ LookupSucceeds
    /\ mark[SubjectId(vres.tok)] # ZeroTime
    /\ mark[SubjectId(vres.tok)] % TicksPerSec = 0
    /\ revocationTolerance % TicksPerSec = 0
    /\ vres.issuedAt = mark[SubjectId(vres.tok)] - revocationTolerance - 1
    /\ vres.err = "ErrTokenRevoked"

\* The token GetToken request r returned is the one presented, and no other
\* revocation of its principal committed after r's.
OwnTokenPresented(r) ==
    /\ vres.called
    /\ pc[r] = "done"
    /\ resp[r].status = 200
    /\ vres.tok = resp[r].token
    /\ vres.issuedAt = issuedAt[r]
    /\ lastBy[user[r]] = r
    /\ now < vres.tok.exp
    /\ LookupSucceeds

StoreErrors == {"sql.ErrConnDone", "io error", "sql.ErrNoRows"}

\* C7: whenever the lookup of the revocation mark fails during
\* ValidateTokenFull (I/O failure, no database handle, no row for the
\* subject), the call returns an error and no claims; a token is accepted
\* only after its principal's mark was read successfully.
C7_FailClosed ==
    vres.called =>
        /\ (Passed /\ LookupFails) => (vres.err # "nil" /\ vres.claims = NoToken)
        /\ vres.err = "nil" =>
              /\ LookupSucceeds
              /\ vres.looked
              /\ vres.lookup = "nil"
              /\ vres.validAfter = mark[SubjectId(vres.tok)]
        /\ vres.err # "nil" => vres.claims = NoToken

\* C7 witness: a correctly signed, unexpired token of an existing, never
\* revoked principal is refused because the query failed.
C7_Witness ==
    /\ Passed
    /\ dbOpen
    /\ ~vres.io
    /\ SubjectId(vres.tok) \in RowIds
    /\ mark[SubjectId(vres.tok)] = ZeroTime
    /\ vres.err # "nil"
    /\ vres.claims = NoToken

\* C8 as stated: when the lookup of the revocation mark fails during
\* ValidateTokenFull, the error returned is ErrTokenInvalid.
C8_AsStated ==
    (Passed /\ LookupFails) => vres.err = "ErrTokenInvalid"

\* C8 amended: when the lookup of the revocation mark fails during
\* ValidateTokenFull, the error returned is the store's own error
\* (sql.ErrConnDone without a handle, the driver's error, sql.ErrNoRows for
\* a missing row), which is neither ErrTokenInvalid nor ErrTokenRevoked, and
\* no claims are returned.
C8_StoreErrorReturned ==
    (Passed /\ LookupFails) =>
        /\ vres.err \in StoreErrors
        /\ vres.err = (IF ~dbOpen THEN "sql.ErrConnDone"
                       ELSE IF ~vres.io THEN "io error"
                       ELSE "sql.ErrNoRows")
        /\ vres.err \notin {"ErrTokenInvalid", "ErrTokenRevoked"}
        /\ vres.claims = NoToken

\* C8 witness: a correctly signed, unexpired token whose subject has no row
\* gets sql.ErrNoRows.
C8_Witness ==
    /\ Passed
    /\ dbOpen /\ vres.io
    /\ SubjectId(vres.tok) \notin RowIds
    /\ vres.err = "sql.ErrNoRows"

\* --------------------------------------------------- claims: revocation
\* The mark of p makes a token of p issued at instant at invalid.
Invalidates(p, at) ==
    /\ mark[p] # ZeroTime
    /\ Floor(at) + revocationTolerance < Floor(mark[p])

\* C5: once the mark of a principal makes a previously issued token invalid,
\* the token stays invalid after any further RevokePreviousTokensAt calls
\* for the principal, whatever their instants and commit order.
C5_Permanent ==
    [][\A p \in RowIds : \A at \in Instants :
          (at <= now /\ Invalidates(p, at)) => Invalidates(p, at)']_vars

\* Request r is between its SELECT ... FOR UPDATE and its commit or rollback.
InTx(r) == pc[r] \in {"update", "commit"}

\* C6: concurrent UpdateTokenValidAfter calls for one principal are
\* linearized: at most one of them is between its SELECT ... FOR UPDATE and
\* its commit or rollback, it is the holder of the row lock, and the mark is
\* the instant written by the call that committed last (unset when none
\* committed), never a value no call wrote.
C6_Linearized ==
    /\ \A r1, r2 \in Procs :
          (r1 # r2 /\ InTx(r1) /\ InTx(r2)) => user[r1] # user[r2]
    /\ \A r \in Procs : InTx(r) => rowLock[user[r]] = r
    /\ \A p \in RowIds :
          /\ rowLock[p] # Free => (InTx(rowLock[p]) /\ user[rowLock[p]] = p)
          /\ lastT[p] = ZeroTime => mark[p] = ZeroTime
          /\ lastT[p] # ZeroTime =>
                /\ mark[p] = (IF storePrecision = "round"
                              THEN Floor(lastT[p] + Half) ELSE lastT[p])
                /\ mark[p] - lastT[p] < Sec(1)
                /\ lastT[p] - mark[p] < Sec(1)

\* C6 witness: both requests revoked the same principal and committed, the
\* one that took the earlier instant committing last.
C6_Witness ==
    /\ pc["r1"] = "done" /\ pc["r2"] = "done"
    /\ resp["r1"].status = 200 /\ resp["r2"].status = 200
    /\ user["r1"] = user["r2"]
    /\ lastBy[user["r1"]] = "r1"
    /\ issuedAt["r1"] < issuedAt["r2"]
    /\ mark[user["r1"]] # ZeroTime

\* ------------------------------------------------------ claims: limiter
\* The allow(k) calls that returned true with their instant in (t - window, t].
AdmittedIn(k, t) ==
    {i \in 1..Len(admitted[k]) : t - window < admitted[k][i] /\ admitted[k][i] <= t}

\* C9: for every key and every instant, under any interleaving of concurrent
\* allow calls, at most maxReq allow(key) calls returned true in the trailing
\* window ending at that instant, and a call that finds maxReq admitted calls
\* in its window returns false; with window 60 s and maxReq 10, the 11th call
\* for one key inside the window returns false.
C9_WindowBound ==
    /\ \A k \in Keys : \A t \in LimiterInstants(window) :
          t <= now => Cardinality(AdmittedIn(k, t)) <= maxReq
    /\ \A g \in Goroutines :
          (lpc[g] = "ret" /\ lres[g].inWindowBefore >= maxReq) => ~lres[g].allowed

\* C9 witness: under the configuration of main (60 s, 10), a call for a key
\* with 10 admitted calls in its window has returned false.
C9_Witness ==
    \E g \in Goroutines :
        /\ window = Sec(WindowSec)
        /\ maxReq = MaxReq
        /\ lpc[g] = "ret"
        /\ lres[g].inWindowBefore = MaxReq
        /\ Len(admitted[lip[g]]) = MaxReq
        /\ ~lres[g].allowed

\* C10: for maxReq >= 1, an allow(key) call made a full window or more after
\* the last admitted call of the key (or with no admitted call at all)
\* returns true, however many calls for the key were denied in between.
C10_Recovery ==
    \A g \in Goroutines :
        (/\ lpc[g] = "ret"
         /\ maxReq >= 1
         /\ \/ lres[g].lastAdmitted = ZeroTime
            \/ lnow[g] - lres[g].lastAdmitted >= window)
        => lres[g].allowed

\* C10 witness: a key whose last call was denied is admitted again once a
\* full window has passed since its last admitted call.
C10_Witness ==
    \E g \in Goroutines :
        /\ lpc[g] = "ret"
        /\ maxReq >= 1
        /\ lres[g].lastAdmitted # ZeroTime
        /\ lnow[g] - lres[g].lastAdmitted >= window
        /\ lres[g].deniedBefore
        /\ lres[g].allowed

\* The instants of a sequence that lie in the trailing window ending now.
StillInWindow(times) == SelectSeq(times, LAMBDA t : t > now - window)

\* C11: the limiter keeps, for every key, exactly the in-window instants of
\* the admitted allow calls of that key, whatever calls were made for other
\* keys (exhausting them or pruning the map), and allow(k) returns true
\* exactly when fewer than maxReq admitted calls of k lie in its window.
C11_KeyIsolation ==
    /\ \A k \in Keys :
          StillInWindow(Get(requests, k)) = StillInWindow(admitted[k])
    /\ \A g \in Goroutines :
          lpc[g] = "ret" =>
             (lres[g].allowed <=> lres[g].inWindowBefore < maxReq)

\* C11 witness: a call for one key is denied on the strength of its own
\* admitted call although another key was admitted, with a pruning of the
\* whole map, after it.
C11_Witness ==
    \E g \in Goroutines :
        /\ lpc[g] = "ret"
        /\ lip[g] = "10.0.0.1"
        /\ ~lres[g].allowed
        /\ lres[g].inWindowBefore >= 1
        /\ admitted["10.0.0.2"] # << >>
        /\ LastAdmitted("10.0.0.2") > LastAdmitted("10.0.0.1")

\* ------------------------------------------- claims: credential endpoints
\* Request r carries a Bearer token that ValidateTokenFull refuses, or would
\* refuse: forged, expired, revoked, or its lookup fails.
BearerFails(r) ==
    /\ req[r].hasBearer
    /\ \/ req[r].bearer.alg # "HS256"
       \/ req[r].bearer.key # Secret
       \/ ~dbOpen
       \/ ~req[r].io
       \/ SubjectId(req[r].bearer) \notin RowIds
       \/ req[r].berr \in {"ErrTokenRevoked", "ErrTokenInvalid"}

\* Request r carries a valid Bearer token of another principal than the one
\* its email and password authenticate.
BearerOfAnother(r) ==
    /\ req[r].hasBearer
    /\ req[r].berr = "nil"
    /\ dbOpen
    /\ req[r].cred.kind = "ok"
    /\ SubjectId(req[r].bearer) # req[r].cred.id

\* Request r was refused: no token issued, no revocation mark written.
Refused(r) ==
    /\ pc[r] = "done"
    /\ resp[r].token = NoToken
    /\ ~req[r].wrote
    /\ rowLock = [p \in RowIds |-> Free]

\* C12 as stated: a Login or GetToken request whose Bearer token fails
\* validation, or is valid for another principal than the credentials, is
\* answered 401, issues no token and writes no revocation mark.
C12_AsStated ==
    \A r \in Procs :
        (req[r].ep \in Endpoints /\ (BearerFails(r) \/ BearerOfAnother(r))) =>
            (Refused(r) /\ resp[r].status = 401)

\* C12 amended: a Login or GetToken request whose Bearer token fails
\* validation, or is valid for another principal than the credentials,
\* issues no token and writes no revocation mark; it is answered 401 when
\* its method is POST and 405 otherwise.
C12_BearerMustMatch ==
    \A r \in Procs :
        (req[r].ep \in Endpoints /\ (BearerFails(r) \/ BearerOfAnother(r))) =>
            /\ Refused(r)
            /\ resp[r].status = (IF req[r].method = "POST" THEN 401 ELSE 405)

\* C12 witness: a POST /getToken with the right password of one user and a
\* valid Bearer token of another is answered 401.
C12_Witness ==
    \E r \in Procs :
        /\ req[r].method = "POST"
        /\ req[r].ep = "GetToken"
        /\ BearerOfAnother(r)
        /\ mark[SubjectId(req[r].bearer)] # ZeroTime
        /\ resp[r].status = 401
        /\ Refused(r)

\* C13: when the limiter denies a request, Wrap answers 429 and does not
\* call the wrapped handler: the request checks no credentials, writes no
\* revocation mark and returns no token; the handler runs only for a request
\* that allow admitted.
C13_DeniedNotServed ==
    \A r \in Procs :
        /\ lpc[Caller(r)] = "429" =>
              /\ ~lres[Caller(r)].allowed
              /\ pc[r] = "idle"
              /\ req[r] = NoReq
              /\ resp[r] = NoResp
              /\ \A p \in RowIds : rowLock[p] # r
        /\ (pc[r] # "idle" \/ req[r] # NoReq) =>
              /\ lpc[Caller(r)] = "next"
              /\ lres[Caller(r)].allowed
        /\ (lpc[Caller(r)] = "ret" /\ ~lres[Caller(r)].allowed) => pc[r] = "idle"

\* C13 witness: the second request of a client inside the window is
\* answered 429 after its first one got a token and set the mark.
C13_Witness ==
    /\ lpc["g1"] = "429"
    /\ lres["g1"].inWindowBefore = 1
    /\ served = 1
    /\ \E p \in RowIds : mark[p] # ZeroTime
    /\ pc["r1"] = "idle"

\* --------------------------------------------------- claims: RequireAuth
\* C14: RequireAuth calls the protected handler only for a request whose
\* Authorization header has the Bearer prefix and whose token
\* ValidateTokenFull accepted; a missing header, an invalid, expired or
\* revoked token and a store error are answered 401 without calling it.
C14_RequireAuth ==
    vres.called =>
        /\ vres.next =>
              /\ vres.hdr = "bearer"
              /\ vres.tok.alg = "HS256" /\ vres.tok.key = Secret
              /\ now < vres.tok.exp
              /\ LookupSucceeds
              /\ ~Invalidates(SubjectId(vres.tok), vres.issuedAt)
              /\ vres.claims = vres.tok
        /\ ~vres.next => vres.status = 401
        /\ (\/ vres.hdr # "bearer"
            \/ vres.tok.alg # "HS256" \/ vres.tok.key # Secret
            \/ ~(now < vres.tok.exp)
            \/ LookupFails
            \/ Invalidates(SubjectId(vres.tok), vres.issuedAt))
           => (~vres.next /\ vres.status = 401)

\* C14 witness: a correctly signed, unexpired but revoked token is answered
\* 401 and the protected handler is not called.
C14_Witness ==
    /\ Passed
    /\ vres.hdr = "bearer"
    /\ vres.err = "ErrTokenRevoked"
    /\ vres.status = 401
    /\ ~vres.next

\* ------------------------------------------------------- claims: tokens
\* C15: a token whose header declares another signing method than HS256,
\* "none" included, is rejected with no claims even when it is otherwise
\* well formed, unexpired and keyed with the configured secret; the
\* revocation store is not even read for it.
C15_AlgorithmConfusion ==
    (vres.called /\ vres.hdr = "bearer" /\ vres.tok.alg # "HS256") =>
        /\ vres.err = "ErrTokenInvalid"
        /\ vres.claims = NoToken
        /\ ~vres.looked
        /\ ~vres.next

\* C15 witness: an unexpired token of an existing principal, signed with
\* the configured secret under HS384, is rejected.
C15_Witness ==
    /\ vres.called
    /\ vres.tok.alg = "HS384"
    /\ vres.tok.key = Secret
    /\ SubjectId(vres.tok) \in RowIds
    /\ now < vres.tok.exp
    /\ vres.err = "ErrTokenInvalid"

\* C16: a token that is malformed, whose signature does not match the
\* configured secret, or whose expiresAt = issuedAt + ttl is not after the
\* current time, fails with ErrTokenInvalid and no claims.
C16_InvalidToken ==
    (/\ vres.called
     /\ vres.hdr = "bearer"
     /\ \/ vres.tok = NoToken
        \/ vres.tok.key # Secret
        \/ vres.issuedAt + tokenExpiry <= now)
    => (vres.err = "ErrTokenInvalid" /\ vres.claims = NoToken)

\* C16 witness: a correctly signed token is presented at the very instant
\* it expires and is rejected.
C16_Witness ==
    /\ vres.called
    /\ vres.tok.alg = "HS256"
    /\ vres.tok.key = Secret
    /\ SubjectId(vres.tok) \in RowIds
    /\ vres.tok.exp = now
    /\ vres.err = "ErrTokenInvalid"

\* ---------------------------------------------------- claims: token codec
\* The decimal digits of the principal IDs issued for.
Decimal(id) ==
    CASE id = 0 -> <<0>>
      [] id = 7 -> <<7>>
      [] id = 42 -> <<4, 2>>
      [] id = 100 -> <<1, 0, 0>>

\* C17 as stated: for every principal ID, email, issuedAt, positive ttl and
\* non-empty secret, ValidateToken with the same secret before
\* issuedAt + ttl accepts the token CreateTokenWithIssuedAt returned and
\* returns the decimal principal ID as subject and the issued email exactly.
C17_AsStated ==
    (codec.parsed /\ codec.secret # "" /\ codec.ttl > 0
        /\ codec.parsedAt < codec.at + codec.ttl) =>
        /\ codec.perr = "nil"
        /\ codec.claims.sub = Decimal(codec.id)
        /\ codec.claims.email = codec.email

\* C17 amended: for every principal ID, email that is valid UTF-8, issuedAt,
\* positive ttl and non-empty secret, ValidateToken with the same secret
\* before the whole second of issuedAt + ttl accepts the token
\* CreateTokenWithIssuedAt returned and returns the decimal principal ID as
\* subject and the issued email exactly; an email with bytes that are no
\* UTF-8 comes back with U+FFFD in their place.
C17_RoundTrip ==
    (codec.parsed /\ codec.secret # "" /\ codec.ttl > 0
        /\ codec.parsedAt < Floor(codec.at + codec.ttl)) =>
        /\ codec.perr = "nil"
        /\ codec.claims.sub = Decimal(codec.id)
        /\ Len(codec.claims.email) = Len(codec.email)
        /\ \A i \in 1..Len(codec.email) :
              codec.claims.email[i] =
                 (IF codec.email[i] = InvalidByte THEN ReplacementChar
                  ELSE codec.email[i])

\* C17 witness: a token for principal 100 with an email holding a character
\* that JSON escapes is parsed back with subject "100" and the same email.
C17_Witness ==
    /\ codec.parsed
    /\ codec.perr = "nil"
    /\ codec.id = 100
    /\ codec.email = <<"a", "<", "x">>
    /\ codec.claims.sub = <<1, 0, 0>>
    /\ codec.claims.email = codec.email

\* ------------------------------------------ claims: revocation called twice
\* The tokens ValidateTokenFull can be asked about.
Presentable ==
    {ServiceToken(sub, at) : sub \in Subjects, at \in Instants}
        \cup UNION {Forged(sub) : sub \in Subjects}

\* The second RevokePreviousTokensAt(p, t) is running, after a first one
\* with the same p and t returned nil.
SecondCall == idem.calls = 1 /\ pc["r1"] # "idle"

\* C18: no step of a second RevokePreviousTokensAt(P, t), made after a first
\* one with the same t returned, changes the store, which stays as the first
\* call left it, or what ValidateTokenFull returns for any token.
C18_Idempotent ==
    [][(SecondCall /\ now' = now) =>
          /\ mark' = idem.once
          /\ \A tok \in Presentable, io \in BOOLEAN :
                ValidateTokenFull(tok, io)' = ValidateTokenFull(tok, io)]_vars

\* C18 witness: the second call for principal 42 with t = 5 s has committed
\* at a later instant, and a token of 42 issued at 4 s is revoked.
C18_Witness ==
    /\ idem.calls = 2
    /\ idem.ok
    /\ idem.p = 42
    /\ idem.t = Sec(5)
    /\ now > Sec(5)
    /\ mark = idem.once
    /\ revocationTolerance = 0
    /\ ValidateTokenFull(ServiceToken(42, Sec(4)), TRUE).err = "ErrTokenRevoked"

\* ------------------------------------------- claims: different principals
\* No other request is inside a transaction on the row of r's principal.
RowUncontended(r) ==
    \A q \in Procs \ {r} : InTx(q) => user[q] # user[r]

\* C19: UpdateTokenValidAfter calls for different principals never block
\* each other: a call waiting at SELECT ... FOR UPDATE for principal Q can
\* take Q's lock whenever no other call is in a transaction on Q, whatever
\* locks are held on other principals, and a call in its transaction holds
\* the lock of no principal but its own.
C19_NoCrossBlocking ==
    \A r \in Procs :
        /\ (pc[r] = "lock" /\ RowUncontended(r)) => LockFree(r)
        /\ InTx(r) => \A p \in RowIds \ {user[r]} : rowLock[p] # r

\* C19 witness: r1 holds the row lock of principal 42 while r2 has taken
\* the lock of principal 43, written, and is about to commit.
C19_Witness ==
    /\ InTx("r1") /\ user["r1"] = 42 /\ rowLock[42] = "r1"
    /\ pc["r2"] = "commit" /\ user["r2"] = 43 /\ rowLock[43] = "r2"
    /\ txw["r2"] # ZeroTime

\* ------------------------------------------------------ claims: client key
\* The peer of a transport-level address, as the connection has it.
PeerOf(addr) ==
    CASE addr = <<"10.0.0.1", ":", "5000">> -> <<"10.0.0.1">>
      [] addr = <<"10.0.0.1", ":", "6000">> -> <<"10.0.0.1">>
      [] addr = <<"10.0.0.2", ":", "5000">> -> <<"10.0.0.2">>
      [] addr = <<"[", "::1", "]", ":", "80">> -> <<"::1">>
      [] OTHER -> addr

\* C20: when trustProxy is false the rate-limit key comes from the
\* transport-level peer address only: two requests with the same RemoteAddr
\* get the same key, the peer's, whatever their X-Real-IP and
\* X-Forwarded-For headers are.
C20_PeerKeyOnly ==
    (kreq.called /\ ~kreq.trustProxy /\ kreq.a.RemoteAddr = kreq.b.RemoteAddr) =>
        /\ kreq.ka = kreq.kb
        /\ kreq.ka = PeerOf(kreq.a.RemoteAddr)

\* C20 witness: without trustProxy, two requests from 10.0.0.1:5000, one
\* with X-Real-IP 1.2.3.4 and one with X-Forwarded-For 5.6.7.8, both get the
\* key 10.0.0.1.
C20_Witness ==
    /\ kreq.called
    /\ ~kreq.trustProxy
    /\ kreq.a.RemoteAddr = <<"10.0.0.1", ":", "5000">>
    /\ kreq.b.RemoteAddr = kreq.a.RemoteAddr
    /\ kreq.a.XRealIP = <<"1.2.3.4">>
    /\ kreq.b.XRealIP = << >>
    /\ kreq.b.XForwardedFor = <<"5.6.7.8">>
    /\ kreq.ka = <<"10.0.0.1">>
    /\ kreq.kb = <<"10.0.0.1">>

\* -------------------------------------------------- claims: empty secret
\* C21: with an empty signing secret, CreateToken and
\* CreateTokenWithIssuedAt return an error and no token, for every principal,
\* email, issuedAt and ttl.
C21_EmptySecretFails ==
    (codec.called /\ codec.secret = "") =>
        /\ codec.err # "nil"
        /\ codec.token = NoToken

\* C21 witness: CreateToken was called with the empty secret for principal
\* 42 and returned an error.
C21_Witness ==
    /\ codec.called
    /\ codec.fn = "CreateToken"
    /\ codec.secret = ""
    /\ codec.id = 42
    /\ codec.err = "secret empty"

\* -------------------------------------------------- claims: limiter map
\* Goroutine g takes the step in which allow decides, writes the map and
\* returns.
Decides(g) == lpc[g] = "decide" /\ lpc'[g] = "ret"

\* Every instant of the list is at or before the cutoff.
AllStale(times, cutoff) == \A i \in 1..Len(times) : times[i] <= cutoff

\* Every instant of the list is after the cutoff.
AllFresh(times, cutoff) == \A i \in 1..Len(times) : times[i] > cutoff

\* C22: no key of the limiter's map is bound to an empty list of instants,
\* and an entry is removed in the allow call whose pruning empties its
\* list: the called key's when the call is denied (an admitted call binds it
\* to its own instant), and every other key's whose instants are all at or
\* before the cutoff when an admitted call prunes the whole map.
C22_NoEmptyEntry ==
    [][/\ \A k \in DOMAIN requests' : requests'[k] # << >>
       /\ \A g \in Goroutines :
             (Decides(g) /\ AllStale(Get(requests, lip[g]), lnow[g] - window)) =>
                IF lres'[g].allowed
                THEN /\ requests'[lip[g]] = <<lnow[g]>>
                     /\ \A k \in DOMAIN requests \ {lip[g]} :
                           AllStale(requests[k], lnow[g] - window) =>
                               k \notin DOMAIN requests'
                ELSE lip[g] \notin DOMAIN requests']_vars

\* C22 witness: an admitted call for 10.0.0.1 has returned and the entry of
\* 10.0.0.2, which had been admitted a window or more earlier, is gone.
C22_Witness ==
    \E g \in Goroutines :
        /\ lpc[g] = "ret"
        /\ lip[g] = "10.0.0.1"
        /\ lres[g].allowed
        /\ admitted["10.0.0.2"] # << >>
        /\ DOMAIN requests = {"10.0.0.1"}
        /\ requests["10.0.0.1"] = <<lnow[g]>>

\* C23: when allow(k) admits a request and k's filtered list was empty,
\* then in the map the call leaves every key, not only k, has at least one
\* instant after cutoff = now - window, and every stored list holds only
\* instants after that cutoff.
C23_GlobalPrune ==
    [][\A g \in Goroutines :
          (Decides(g) /\ lres'[g].allowed
              /\ AllStale(Get(requests, lip[g]), lnow[g] - window)) =>
             \A k \in DOMAIN requests' :
                 /\ requests'[k] # << >>
                 /\ AllFresh(requests'[k], lnow[g] - window)]_vars

\* C23 witness: an admitted call for 10.0.0.1, whose own instants had all
\* expired, has returned; the map keeps 10.0.0.2, which has an instant in
\* the window.
C23_Witness ==
    \E g \in Goroutines :
        /\ lpc[g] = "ret"
        /\ lip[g] = "10.0.0.1"
        /\ lres[g].allowed
        /\ lres[g].lastAdmitted # ZeroTime
        /\ lres[g].inWindowBefore = 0
        /\ DOMAIN requests = {"10.0.0.1", "10.0.0.2"}
        /\ AllFresh(requests["10.0.0.2"], lnow[g] - window)

\* C24: when allow(k) returns false with a non-empty filtered list, the
\* list stored for k afterwards is k's previous instants that are after the
\* cutoff, in the same order, with no instant appended for the denied call,
\* and the entries of all other keys are unchanged.
C24_DenialEffect ==
    [][\A g \in Goroutines :
          (Decides(g) /\ ~lres'[g].allowed
              /\ ~AllStale(Get(requests, lip[g]), lnow[g] - window)) =>
             /\ lip[g] \in DOMAIN requests'
             /\ requests'[lip[g]] =
                   SelectSeq(requests[lip[g]], LAMBDA t : t > lnow[g] - window)
             /\ DOMAIN requests' \ {lip[g]} = DOMAIN requests \ {lip[g]}
             /\ \A k \in DOMAIN requests \ {lip[g]} : requests'[k] = requests[k]]_vars

\* C24 witness: a call for 10.0.0.1 was denied with two instants in its
\* window, which the map still holds, next to the entry of 10.0.0.2.
C24_Witness ==
    \E g \in Goroutines :
        /\ lpc[g] = "ret"
        /\ lip[g] = "10.0.0.1"
        /\ ~lres[g].allowed
        /\ maxReq = 2
        /\ Len(requests["10.0.0.1"]) = 2
        /\ "10.0.0.2" \in DOMAIN requests

\* ------------------------------------------------ claims: who writes marks
\* Tokens the service can have signed for the principals: at the start, and
\* at two of the instants at which a revocation can be stamped.
IssuedTokens == {ServiceToken(sub, at) : sub \in RowIds, at \in {0, Sec(4), Sec(5)}}

\* Request r takes the step in which UpdateTokenValidAfter commits.
Commits(r) == pc[r] = "commit" /\ pc'[r] = "issue"

\* C25: only the commit of a revocation changes a mark. Every other step
\* (the ValidateTokenFull of a Bearer, Login with its CreateToken,
\* CreateTokenWithIssuedAt, the steps of a transaction before its commit)
\* leaves every mark unchanged; with the clock unchanged it leaves what
\* ValidateTokenFull returns for every token unchanged, and a token that was
\* valid and has not expired is still valid after it.
C25_OnlyRevocationWrites ==
    [][\/ \E r \in Procs : Commits(r)
       \/ /\ mark' = mark
          /\ \A tok \in IssuedTokens :
                IF now' = now
                THEN ValidateTokenFull(tok, TRUE)' = ValidateTokenFull(tok, TRUE)
                ELSE (ValidateTokenFull(tok, TRUE).err = "nil" /\ now' < tok.exp) =>
                        ValidateTokenFull(tok, TRUE)'.err = "nil"]_vars

\* C25 witness: after a revocation of principal 42, a Login that checked a
\* Bearer token was answered 200 with a new token, and the token issued with
\* the revocation is still valid.
C25_Witness ==
    /\ req["r1"].ep = "Login"
    /\ req["r1"].hasBearer
    /\ resp["r1"].status = 200
    /\ resp["r1"].token # NoToken
    /\ mark[42] # ZeroTime
    /\ lastT[42] # ZeroTime
    /\ ValidateTokenFull(ServiceToken(42, lastT[42]), TRUE).err = "nil"

\* ------------------------------------------- claims: failed revocation
\* Where a request is inside UpdateTokenValidAfter.
InUpdateTokenValidAfter == {"begin", "lock", "update", "commit"}

\* C26: no partial revocation write. No step of an UpdateTokenValidAfter
\* call other than its successful commit changes a mark, so a call that
\* returns an error at begin, row lock, update or commit leaves the mark as
\* it was; and when it returns the error it holds no row lock and no
\* uncommitted write, so a later call for the principal can proceed.
C26_NoPartialWrite ==
    [][\A r \in Procs :
          /\ (pc[r] \in InUpdateTokenValidAfter /\ pc'[r] # pc[r] /\ ~Commits(r)) =>
                mark' = mark
          /\ (pc[r] \in InUpdateTokenValidAfter /\ pc'[r] = "done") =>
                /\ resp'[r].status = 500
                /\ \A p \in RowIds : rowLock'[p] # r
                /\ txw'[r] = ZeroTime]_vars

\* C26 witness: the call of r1 for principal 42 returned an error and no
\* mark was ever written; r2 then took the row lock of 42 and has its
\* UPDATE ready to commit.
C26_Witness ==
    /\ pc["r1"] = "done"
    /\ resp["r1"].status = 500
    /\ user["r1"] = 42
    /\ mark = [p \in RowIds |-> ZeroTime]
    /\ pc["r2"] = "commit"
    /\ user["r2"] = 42
    /\ rowLock[42] = "r2"
    /\ txw["r2"] # ZeroTime

\* -------------------------------------------- claims: scope of a revocation
\* C27: RevokePreviousTokensAt(P, t) changes only P's mark: its commit
\* leaves the mark of every principal Q # P unchanged, and with it what
\* ValidateTokenFull returns for each of Q's tokens.
C27_ScopedToPrincipal ==
    [][\A r \in Procs :
          Commits(r) =>
             \A q \in RowIds \ {user[r]} :
                 /\ mark'[q] = mark[q]
                 /\ \A tok \in {t \in IssuedTokens : SubjectId(t) = q} :
                       ValidateTokenFull(tok, TRUE)' = ValidateTokenFull(tok, TRUE)]_vars

\* C27 witness: principal 42 was revoked at 4 s or later and principal 43
\* never; of the two tokens issued at 0 s, the one of 42 is revoked and the
\* one of 43 is valid.
C27_Witness ==
    /\ mark[42] >= Sec(4)
    /\ mark[43] = ZeroTime
    /\ lastBy[42] # ""
    /\ ValidateTokenFull(ServiceToken(42, 0), TRUE).err = "ErrTokenRevoked"
    /\ ValidateTokenFull(ServiceToken(43, 0), TRUE).err = "nil"

\* ------------------------------------------------- claims: order of checks
\* The presented token fails ValidateToken: it is no token, names another
\* signing method, is signed with another key, or has expired.
FailsValidateToken ==
    \/ vres.tok = NoToken
    \/ vres.tok.alg # "HS256"
    \/ vres.tok.key # Secret
    \/ ~(now < vres.tok.exp)

\* The presented token was issued before its principal's cutoff.
BeforeCutoff ==
    /\ SubjectId(vres.tok) \in RowIds
    /\ mark[SubjectId(vres.tok)] # ZeroTime
    /\ Floor(vres.tok.iat) + revocationTolerance < Floor(mark[SubjectId(vres.tok)])

\* C28: ValidateTokenFull checks signature and expiry before revocation: a
\* token that fails ValidateToken yields ErrTokenInvalid and never
\* ErrTokenRevoked, even when it was issued before its principal's cutoff,
\* and the revocation store is not read for it.
C28_CheckOrder ==
    (vres.called /\ vres.hdr = "bearer" /\ FailsValidateToken) =>
        /\ vres.err = "ErrTokenInvalid"
        /\ vres.err # "ErrTokenRevoked"
        /\ ~vres.looked
        /\ vres.lookup = "none"

\* C28 witness: a token of an existing principal, correctly signed, issued
\* before the principal's cutoff and expired, is rejected as invalid without
\* a lookup.
C28_Witness ==
    /\ vres.called
    /\ vres.tok.alg = "HS256"
    /\ vres.tok.key = Secret
    /\ ~(now < vres.tok.exp)
    /\ BeforeCutoff
    /\ dbOpen
    /\ vres.io
    /\ vres.err = "ErrTokenInvalid"
    /\ ~vres.looked

\* ------------------------------------------- claims: step order in GetToken
\* The email and password of request r authenticated a user, and the Bearer
\* token, if one was sent, is valid and names that user.
Authenticated(r) ==
    /\ req[r].method = "POST"
    /\ dbOpen
    /\ req[r].cred.kind = "ok"
    /\ req[r].hasBearer =>
          /\ req[r].berr = "nil"
          /\ SubjectId(req[r].bearer) = req[r].cred.id

\* C29: in GetToken the revocation starts, and the mark is written, only
\* after the email and password authenticated and an optional Bearer token
\* matched; a token is in the response only after this request's revocation
\* write committed; when RevokePreviousTokensAt fails the response is 500
\* with no token; and when authentication fails no mark is written.
C29_StepOrder ==
    \A r \in Procs :
        req[r].ep = "GetToken" =>
            /\ (pc[r] \in InUpdateTokenValidAfter \cup {"issue"} \/ req[r].wrote) =>
                  Authenticated(r)
            /\ resp[r].token # NoToken =>
                  /\ resp[r].status = 200
                  /\ req[r].wrote
                  /\ lastBy[user[r]] = r
                  /\ lastT[user[r]] = issuedAt[r]
            /\ (pc[r] = "done" /\ Authenticated(r) /\ ~req[r].wrote) =>
                  (resp[r].status = 500 /\ resp[r].token = NoToken)
            /\ ~Authenticated(r) =>
                  (pc[r] = "done" /\ ~req[r].wrote /\ resp[r].token = NoToken)

\* C29 witness: a POST /getToken with the right password and the user's own
\* valid Bearer token, whose revocation failed: 500, no token, no mark.
C29_Witness ==
    /\ req["r1"].ep = "GetToken"
    /\ req["r1"].hasBearer
    /\ Authenticated("r1")
    /\ pc["r1"] = "done"
    /\ ~req["r1"].wrote
    /\ resp["r1"].status = 500
    /\ resp["r1"].token = NoToken
    /\ mark = [p \in RowIds |-> ZeroTime]

\* --------------------------------------------- claims: concurrent reissue
\* Both GetToken requests were for principal p, succeeded and are complete.
BothReissued(p) ==
    \A r \in Procs :
        /\ pc[r] = "done"
        /\ resp[r].status = 200
        /\ user[r] = p

\* A request whose token is stamped with the greatest instant.
Latest == CHOOSE r \in Procs : \A q \in Procs : issuedAt[q] <= issuedAt[r]

====
